---- MODULE Spec2Model ----
(***************************************************************************)
(* Model of reactpy/core/state_recovery.py: StateRecoveryManager and       *)
(* StateRecoverySerializer.  Byte strings are sequences of ASCII codes.    *)
(* Python objects are records [cls, j]: the class name and the JSON tree   *)
(* orjson writes for the object.  JSON trees are records                   *)
(* [k, n, s, key, items] (kind, number, string bytes, member key, children)*)
(***************************************************************************)
EXTENDS Integers, Sequences, FiniteSets, TLC

VARIABLES mgr, now, ser, issued, last

vars == <<mgr, now, ser, issued, last>>

(* ------------------------------------------------------------------ *)
(* Bounds of the model                                                 *)
(* ------------------------------------------------------------------ *)
MaxTime == 3

(* ------------------------------------------------------------------ *)
(* Bytes and text                                                      *)
(* ------------------------------------------------------------------ *)
RECURSIVE Str(_)
Str(n) ==
    IF n < 10 THEN <<48 + n>> ELSE Str(n \div 10) \o <<48 + (n % 10)>>

RECURSIVE Concat(_)
Concat(ss) ==
    IF Len(ss) = 0 THEN <<>> ELSE Head(ss) \o Concat(Tail(ss))

(* ------------------------------------------------------------------ *)
(* base64.urlsafe_b64encode / base64.urlsafe_b64decode                  *)
(* ------------------------------------------------------------------ *)
B64Char(i) ==
    IF i < 26 THEN 65 + i
    ELSE IF i < 52 THEN 97 + (i - 26)
    ELSE IF i < 62 THEN 48 + (i - 52)
    ELSE IF i = 62 THEN 45
    ELSE 95

RECURSIVE urlsafe_b64encode(_)
urlsafe_b64encode(b) ==
    IF Len(b) = 0 THEN <<>>
    ELSE IF Len(b) = 1 THEN
        <<B64Char(b[1] \div 4), B64Char((b[1] % 4) * 16), 61, 61>>
    ELSE IF Len(b) = 2 THEN
        <<B64Char(b[1] \div 4),
          B64Char((b[1] % 4) * 16 + (b[2] \div 16)),
          B64Char((b[2] % 16) * 4), 61>>
    ELSE
        <<B64Char(b[1] \div 4),
          B64Char((b[1] % 4) * 16 + (b[2] \div 16)),
          B64Char((b[2] % 16) * 4 + (b[3] \div 64)),
          B64Char(b[3] % 64)>> \o urlsafe_b64encode(SubSeq(b, 4, Len(b)))

\* binascii's decoding table after the url-safe translation of '-' and '_';
\* 64 stands for a character outside the alphabet.
B64Index(c) ==
    IF c >= 65 /\ c <= 90 THEN c - 65
    ELSE IF c >= 97 /\ c <= 122 THEN c - 97 + 26
    ELSE IF c >= 48 /\ c <= 57 THEN c - 48 + 52
    ELSE IF c = 45 \/ c = 43 THEN 62
    ELSE IF c = 95 \/ c = 47 THEN 63
    ELSE 64

\* binascii.a2b_base64 in its default non-strict mode: characters outside
\* the alphabet are skipped, decoding stops at a completed pad sequence,
\* the unused low bits of the last character are dropped, and input that
\* ends inside a quad is an error.
RECURSIVE a2b_base64(_, _, _, _, _)
a2b_base64(s, quad_pos, leftchar, pads, out) ==
    IF Len(s) = 0 THEN
        IF quad_pos # 0 THEN [ok |-> FALSE, bytes |-> <<>>]
        ELSE [ok |-> TRUE, bytes |-> out]
    ELSE
        LET c == Head(s)
            v == B64Index(c)
        IN  IF c = 61 THEN
                IF quad_pos >= 2 /\ quad_pos + pads + 1 >= 4
                THEN [ok |-> TRUE, bytes |-> out]
                ELSE a2b_base64(Tail(s), quad_pos, leftchar, pads + 1, out)
            ELSE IF v = 64 THEN
                a2b_base64(Tail(s), quad_pos, leftchar, pads, out)
            ELSE IF quad_pos = 0 THEN
                a2b_base64(Tail(s), 1, v, 0, out)
            ELSE IF quad_pos = 1 THEN
                a2b_base64(Tail(s), 2, v % 16, 0,
                           Append(out, leftchar * 4 + (v \div 16)))
            ELSE IF quad_pos = 2 THEN
                a2b_base64(Tail(s), 3, v % 4, 0,
                           Append(out, leftchar * 16 + (v \div 4)))
            ELSE
                a2b_base64(Tail(s), 0, 0, 0, Append(out, leftchar * 64 + v))

urlsafe_b64decode(s) == a2b_base64(s, 0, 0, 0, <<>>)

(* ------------------------------------------------------------------ *)
(* JSON trees and the Python objects of the model                      *)
(* ------------------------------------------------------------------ *)
J(k, n, s, items) == [k |-> k, n |-> n, s |-> s, key |-> <<>>, items |-> items]

JNull == J("null", 0, <<>>, <<>>)
JBool(b) == J("bool", b, <<>>, <<>>)
JInt(n) == J("int", n, <<>>, <<>>)
JFloat(tenths) == J("float", tenths, <<>>, <<>>)
JStr(s) == J("str", 0, s, <<>>)
JArr(items) == J("arr", 0, <<>>, items)
JObj(items) == J("obj", 0, <<>>, items)
Member(key, j) == [j EXCEPT !.key = key]

Obj(cls, j) == [cls |-> cls, j |-> j]

None == Obj("NoneType", JNull)
PointXY == JObj(<<Member(<<120>>, JInt(1)), Member(<<121>>, JInt(2))>>)

\* The values state variables take in the model, one or two per class.
Values ==
    { None,
      Obj("str", JStr(<<97>>)),
      Obj("int", JInt(1)),
      Obj("int", JInt(12345)),
      Obj("float", JFloat(15)),
      Obj("bool", JBool(1)),
      Obj("list", JArr(<<JInt(1)>>)),
      Obj("tuple", JArr(<<JInt(1)>>)),
      Obj("UUID", JStr(<<117, 49>>)),
      Obj("Decimal", JStr(<<50>>)),
      Obj("datetime", JStr(<<100, 84>>)),
      Obj("date", JStr(<<100>>)),
      Obj("time", JStr(<<84>>)),
      Obj("Point", PointXY),
      Obj("SubPoint", PointXY),
      Obj("dict", JObj(<<Member(<<120>>, JInt(1))>>)) }

\* type(obj).__mro__
Mro(cls) ==
    CASE cls = "bool" -> <<"bool", "int", "object">>
      [] cls = "datetime" -> <<"datetime", "date", "object">>
      [] cls = "SubPoint" -> <<"SubPoint", "Point", "object">>
      [] OTHER -> <<cls, "object">>

(* ------------------------------------------------------------------ *)
(* orjson.dumps / orjson.loads                                         *)
(* ------------------------------------------------------------------ *)
RECURSIVE JsonBytes(_), JsonItems(_, _)
JsonBytes(j) ==
    CASE j.k = "null" -> <<110, 117, 108, 108>>
      [] j.k = "bool" -> IF j.n = 1 THEN <<116, 114, 117, 101>>
                         ELSE <<102, 97, 108, 115, 101>>
      [] j.k = "int" -> Str(j.n)
      [] j.k = "float" -> Str(j.n \div 10) \o <<46>> \o Str(j.n % 10)
      [] j.k = "str" -> <<34>> \o j.s \o <<34>>
      [] j.k = "arr" -> <<91>> \o JsonItems(j.items, FALSE) \o <<93>>
      [] j.k = "obj" -> <<123>> \o JsonItems(j.items, TRUE) \o <<125>>

JsonItems(items, keyed) ==
    IF Len(items) = 0 THEN <<>>
    ELSE (IF keyed THEN <<34>> \o Head(items).key \o <<34, 58>> ELSE <<>>)
         \o JsonBytes([Head(items) EXCEPT !.key = <<>>])
         \o (IF Len(items) > 1 THEN <<44>> ELSE <<>>)
         \o JsonItems(Tail(items), keyed)

\* Classes orjson writes without help; every other class goes to default=.
NativeClasses ==
    {"str", "int", "float", "bool", "list", "tuple", "dict", "UUID",
     "datetime", "date", "time", "Point", "SubPoint"}

\* orjson.dumps(obj, default=default_serializer); default_serializer is
\* either absent ("none") or the function str ("str").
dumps(obj, default_serializer) ==
    IF obj.cls \in NativeClasses \/ obj.cls = "NoneType"
    THEN [ok |-> TRUE, bytes |-> JsonBytes(obj.j)]
    ELSE IF default_serializer = "str"
    THEN [ok |-> TRUE, bytes |-> JsonBytes(JStr(obj.j.s))]
    ELSE [ok |-> FALSE, bytes |-> <<>>]

\* The documents the parser is asked about in the model.
JsonDomain == {v.j : v \in Values}

\* orjson.loads: the tree whose text is the input; anything else is a
\* JSONDecodeError.
loads(data) ==
    IF \E j \in JsonDomain : JsonBytes(j) = data
    THEN [ok |-> TRUE, j |-> CHOOSE j \in JsonDomain : JsonBytes(j) = data]
    ELSE [ok |-> FALSE, j |-> JNull]

\* The Python object orjson.loads builds for a tree.
PyOf(j) ==
    CASE j.k = "null" -> None
      [] j.k = "bool" -> Obj("bool", j)
      [] j.k = "int" -> Obj("int", j)
      [] j.k = "float" -> Obj("float", j)
      [] j.k = "str" -> Obj("str", j)
      [] j.k = "arr" -> Obj("list", j)
      [] j.k = "obj" -> Obj("dict", j)

(* ------------------------------------------------------------------ *)
(* StateRecoveryManager                                                *)
(* ------------------------------------------------------------------ *)
Exc(type, msg) == [type |-> type, msg |-> msg]
NoExc == Exc("", "")

\* The managers of the model: __init__'s arguments as given by the caller.
\* deserializer_map is the set of classes mapped to their fromisoformat.
Manager(whitelist, max_objects, max_object_length, default_serializer, dmap) ==
    [serializable_objects |-> whitelist,
     pepper |-> <<112>>,
     otp_interval |-> 2,
     max_objects |-> max_objects,
     max_object_length |-> max_object_length,
     default_serializer |-> default_serializer,
     deserializer_map |-> dmap]

Managers ==
    { Manager(<<"Point">>, 256, 40000, "str", {}),
      Manager(<<"Point">>, 1, 3, "none", {}),
      Manager(<<>>, 256, 40000, "none", {"datetime", "date", "time"}),
      Manager(<<"str", "Point", "Point">>, 256, 40000, "none", {}) }

\* The list __init__ hands to _map_objects_to_ids.
InitObjects(m) ==
    m.serializable_objects \o <<"Decimal", "datetime", "date", "time">>

\* The loop of _map_objects_to_ids from position idx on, over the two
\* dictionaries built so far; a later entry overwrites an earlier one.
RECURSIVE MapLoop(_, _, _, _)
MapLoop(types, idx, o2id, id2o) ==
    IF idx > Len(types) THEN [object_to_type_id |-> o2id, type_id_to_object |-> id2o]
    ELSE LET idx_as_bytes == Str(idx - 1)
             typ == types[idx]
         IN  MapLoop(types, idx + 1,
                     (typ :> idx_as_bytes) @@ o2id,
                     (idx_as_bytes :> typ) @@ id2o)

\* A bug: the None entry is left out, so every ordinal is one lower.
_map_objects_to_ids_NoNone(serializable_objects) ==
    MapLoop(<<"str", "int", "float", "bool", "list", "tuple", "UUID">>
                \o serializable_objects,
            1, <<>>, <<>>)

_map_objects_to_ids(serializable_objects) ==
    MapLoop(<<"None", "str", "int", "float", "bool", "list", "tuple", "UUID">>
                \o serializable_objects,
            1, <<>>, <<>>)

Registry(m) == _map_objects_to_ids(InitObjects(m))

\* dict.get with a miss returning the falsy None, written as empty bytes.
Get(d, k) == IF k \in DOMAIN d THEN d[k] ELSE <<>>

RECURSIVE Pad(_, _)
Pad(s, width) == IF Len(s) >= width THEN s ELSE Pad(<<48>> \o s, width)

\* pyotp's TOTP.at: the six digit code of the counter floor(t / interval).
\* The keyed truncation is taken to give distinct counters distinct codes.
totp_at(m, for_time) == Pad(Str(for_time \div m.otp_interval), 6)

NoTime == 0 - 1

\* target_time or time.time()
TimeOr(target_time, wall) ==
    IF target_time = NoTime \/ target_time = 0 THEN wall ELSE target_time

\* create_serializer; "at" and "explicit" remember the call: the time the
\* caller asked for and whether it was passed as target_time.
create_serializer(m, salt, target_time, wall) ==
    [otp_code |-> totp_at(m, TimeOr(target_time, wall)),
     salt |-> salt,
     at |-> IF target_time = NoTime THEN wall ELSE target_time,
     explicit |-> target_time # NoTime]

(* ------------------------------------------------------------------ *)
(* StateRecoverySerializer: signing and serialization                  *)
(* ------------------------------------------------------------------ *)
\* hashlib.sha256 over the updates in order, then hexdigest.  The digest is
\* written as the hashed message behind a 0 marker: equal messages have
\* equal digests and different messages different ones.
hexdigest(updates) == <<0>> \o Concat(updates)

\* A bug: the salt is left out of the digest.
_sign_serialization_NoSalt(m, s, key, type_id, data) ==
    hexdigest(<<type_id, data, m.pepper, s.otp_code, key>>)

_sign_serialization(m, s, key, type_id, data) ==
    hexdigest(<<type_id, data, m.pepper, s.otp_code, s.salt, key>>)

_serialize_object(m, obj) == dumps(obj, m.default_serializer)

\* A bug: only the exact type is looked up.
MroLookup_ExactOnly(o2id, mro) == Get(o2id, Head(mro))

\* A bug: the last registered class of the hierarchy is taken.
RECURSIVE MroLookup_Farthest(_, _)
MroLookup_Farthest(o2id, mro) ==
    IF Len(mro) = 0 THEN <<>>
    ELSE IF Len(MroLookup_Farthest(o2id, Tail(mro))) > 0 THEN MroLookup_Farthest(o2id, Tail(mro))
    ELSE Get(o2id, Head(mro))

\* The for/else over obj_type.__mro__: the first truthy identifier.
RECURSIVE MroLookup(_, _)
MroLookup(o2id, mro) ==
    IF Len(mro) = 0 THEN <<>>
    ELSE IF Len(Get(o2id, Head(mro))) > 0 THEN Get(o2id, Head(mro))
    ELSE MroLookup(o2id, Tail(mro))

\* A bug: a payload of exactly the limit is refused.
TooLong_AtLimit(m, result) == Len(result) >= m.max_object_length

\* len(result) > self._max_object_length
TooLong(m, result) == Len(result) > m.max_object_length

NoToken == <<<<>>, <<>>, <<>>>>
NoneToken == <<Str(0), <<>>, <<>>>>

_serialize(m, s, key, obj) ==
    IF obj = None THEN [exc |-> NoExc, token |-> NoneToken]
    ELSE
      LET type_id == MroLookup(Registry(m).object_to_type_id, Mro(obj.cls))
          result == _serialize_object(m, obj)
      IN  IF Len(type_id) = 0
          THEN [exc |-> Exc("ValueError", "not white-listed"), token |-> NoToken]
          ELSE IF ~result.ok
          THEN [exc |-> Exc("JSONEncodeError", "not serializable"), token |-> NoToken]
          ELSE IF TooLong(m, result.bytes)
          THEN [exc |-> Exc("ValueError", "too long"), token |-> NoToken]
          ELSE [exc |-> NoExc,
                token |-> <<type_id,
                            urlsafe_b64encode(result.bytes),
                            _sign_serialization(m, s, key, type_id, result.bytes)>>]

\* serialize_state_vars: state_vars is the dict as its items in insertion
\* order, <<key, value>>; the first exception leaves the loop and the call.
RECURSIVE SerializeLoop(_, _, _, _)
SerializeLoop(m, s, state_vars, result) ==
    IF Len(state_vars) = 0 THEN [exc |-> NoExc, result |-> result]
    ELSE LET r == _serialize(m, s, Head(state_vars)[1], Head(state_vars)[2])
         IN  IF r.exc # NoExc THEN [exc |-> r.exc, result |-> <<>>]
             ELSE SerializeLoop(m, s, Tail(state_vars),
                                Append(result, <<Head(state_vars)[1], r.token>>))

serialize_state_vars(m, s, state_vars) == SerializeLoop(m, s, state_vars, <<>>)

(* ------------------------------------------------------------------ *)
(* StateRecoverySerializer: deserialization                            *)
(* ------------------------------------------------------------------ *)
IsDigits(s) == Len(s) > 0 /\ \A i \in 1..Len(s) : s[i] >= 48 /\ s[i] <= 57

RECURSIVE ParseNat(_)
ParseNat(s) ==
    IF Len(s) = 0 THEN 0 ELSE ParseNat(SubSeq(s, 1, Len(s) - 1)) * 10 + (s[Len(s)] - 48)

\* The texts the classes' own parsers accept in the model.
ValidText(cls, s) ==
    CASE cls = "UUID" -> s = <<117, 49>>
      [] cls = "datetime" -> s = <<100, 84>>
      [] cls = "date" -> s = <<100>>
      [] cls = "time" -> s = <<84>>
      [] OTHER -> FALSE

Chars(s) == JArr([i \in 1..Len(s) |-> JStr(<<s[i]>>)])

\* typ(result) for a str result.
CallWithStr(typ, j) ==
    CASE typ = "str" -> [exc |-> NoExc, value |-> Obj("str", j)]
      [] typ = "UUID" ->
            IF ValidText("UUID", j.s) THEN [exc |-> NoExc, value |-> Obj("UUID", j)]
            ELSE [exc |-> Exc("ValueError", "badly formed UUID"), value |-> None]
      [] typ = "Decimal" ->
            IF IsDigits(j.s) THEN [exc |-> NoExc, value |-> Obj("Decimal", j)]
            ELSE [exc |-> Exc("InvalidOperation", "conversion syntax"), value |-> None]
      [] typ = "int" ->
            IF IsDigits(j.s) THEN [exc |-> NoExc, value |-> Obj("int", JInt(ParseNat(j.s)))]
            ELSE [exc |-> Exc("ValueError", "invalid literal"), value |-> None]
      [] typ = "float" ->
            IF IsDigits(j.s) THEN [exc |-> NoExc, value |-> Obj("float", JFloat(ParseNat(j.s) * 10))]
            ELSE [exc |-> Exc("ValueError", "could not convert"), value |-> None]
      [] typ = "bool" ->
            [exc |-> NoExc, value |-> Obj("bool", JBool(IF Len(j.s) > 0 THEN 1 ELSE 0))]
      [] typ = "list" -> [exc |-> NoExc, value |-> Obj("list", Chars(j.s))]
      [] typ = "tuple" -> [exc |-> NoExc, value |-> Obj("tuple", Chars(j.s))]
      [] OTHER -> [exc |-> Exc("TypeError", "constructor arguments"), value |-> None]

\* typ(**result) for a dict result: only the two-field Point takes keywords.
CallWithKwargs(typ, j) ==
    IF typ = "Point" /\ Len(j.items) = 2
       /\ {j.items[i].key : i \in 1..2} = {<<120>>, <<121>>}
    THEN [exc |-> NoExc, value |-> Obj("Point", j)]
    ELSE [exc |-> Exc("TypeError", "constructor arguments"), value |-> None]

\* The registered custom deserializer of typ: typ.fromisoformat.
CallCustom(typ, j) ==
    IF j.k # "str"
    THEN [exc |-> Exc("TypeError", "fromisoformat: argument must be str"), value |-> None]
    ELSE IF ValidText(typ, j.s) THEN [exc |-> NoExc, value |-> Obj(typ, j)]
    ELSE [exc |-> Exc("ValueError", "Invalid isoformat string"), value |-> None]

\* "calls" lists what ran on the data, in order.
_deserialize_object(m, typ, data) ==
    IF typ = "None" THEN [exc |-> NoExc, value |-> None, calls |-> <<>>]
    ELSE
      LET result == loads(data)
          r == IF typ \in m.deserializer_map THEN CallCustom(typ, result.j)
               ELSE IF result.j.k = "str" THEN CallWithStr(typ, result.j)
               ELSE IF result.j.k = "obj" THEN CallWithKwargs(typ, result.j)
               ELSE [exc |-> NoExc, value |-> PyOf(result.j)]
          called == IF typ \in m.deserializer_map THEN <<"custom_deserializer">>
                    ELSE IF result.j.k \in {"str", "obj"} THEN <<"constructor">>
                    ELSE <<>>
      IN  IF ~result.ok
          THEN [exc |-> Exc("JSONDecodeError", "unexpected character"),
                value |-> None, calls |-> <<"loads">>]
          ELSE [exc |-> r.exc, value |-> r.value, calls |-> <<"loads">> \o called]

\* A bug: the signatures are not compared.
SignatureMismatch_Never(expected_signature, signature) == FALSE

\* expected_signature != signature
SignatureMismatch(expected_signature, signature) == expected_signature # signature

\* A bug: the sentinel identifier is not recognised.
IsNoneId_Never(type_id) == FALSE

\* type_id == b"0"
IsNoneId(type_id) == type_id = Str(0)

_deserialize(m, s, key, type_id, data, signature) ==
    IF IsNoneId(type_id) THEN [exc |-> NoExc, value |-> None, calls |-> <<>>]
    ELSE IF type_id \notin DOMAIN Registry(m).type_id_to_object
    THEN [exc |-> Exc("StateRecoveryFailureError", "Unknown type id"),
          value |-> None, calls |-> <<"lookup">>]
    ELSE
      LET typ == Registry(m).type_id_to_object[type_id]
          result == urlsafe_b64decode(data)
          expected_signature == _sign_serialization(m, s, key, type_id, result.bytes)
          r == _deserialize_object(m, typ, result.bytes)
      IN  IF ~result.ok
          THEN [exc |-> Exc("binascii.Error", "Incorrect padding"),
                value |-> None, calls |-> <<"lookup", "b64decode">>]
          ELSE IF SignatureMismatch(expected_signature, signature)
          THEN [exc |-> Exc("StateRecoveryFailureError", "Signature mismatch"),
                value |-> None, calls |-> <<"lookup", "b64decode", "sign">>]
          ELSE [exc |-> r.exc, value |-> r.value,
                calls |-> <<"lookup", "b64decode", "sign">> \o r.calls]

\* A bug: the items recovered before the failure are handed back.
Abandon_KeepPartial(result) == result

\* What the dict comprehension of deserialize_client_state hands back when
\* an item raises after "result" was built: nothing.
Abandon(result) == <<>>

\* deserialize_client_state: state_vars is the dict as its items in
\* insertion order, <<key, <<type_id, data, signature>>>>.
RECURSIVE DeserializeLoop(_, _, _, _, _)
DeserializeLoop(m, s, state_vars, result, calls) ==
    IF Len(state_vars) = 0 THEN [exc |-> NoExc, result |-> result, calls |-> calls]
    ELSE LET key == Head(state_vars)[1]
             tok == Head(state_vars)[2]
             r == _deserialize(m, s, key, tok[1], tok[2], tok[3])
         IN  IF r.exc # NoExc
             THEN [exc |-> r.exc, result |-> Abandon(result), calls |-> calls \o r.calls]
             ELSE DeserializeLoop(m, s, Tail(state_vars),
                                  Append(result, <<key, r.value>>),
                                  calls \o r.calls)

deserialize_client_state(m, s, state_vars) ==
    DeserializeLoop(m, s, state_vars, <<>>, <<>>)

(* ------------------------------------------------------------------ *)
(* The server and its client                                           *)
(* ------------------------------------------------------------------ *)
Salts == {<<65>>, <<65, 66>>}
Names == {<<97>>, <<66, 97>>}

Int1 == Obj("int", JInt(1))

\* The state_vars dictionaries handed to serialize_state_vars.
StateVarsInputs ==
    {<<>>}
    \cup {<<<<(<<97>>), v>>>> : v \in Values}
    \cup {<<<<(<<66, 97>>), Int1>>>>}
    \cup {<<<<(<<97>>), p[1]>>, <<(<<66, 97>>), p[2]>>>> :
            p \in { <<Int1, None>>,
                    <<Int1, Obj("tuple", JArr(<<JInt(1)>>))>>,
                    <<Int1, Obj("dict", JObj(<<Member(<<120>>, JInt(1))>>))>>,
                    <<Obj("dict", JObj(<<Member(<<120>>, JInt(1))>>)), Int1>>,
                    <<Obj("int", JInt(12345)), Int1>>,
                    <<Int1, Obj("datetime", JStr(<<100, 84>>))>> }}

NoSer == [otp_code |-> <<>>, salt |-> <<>>, at |-> NoTime, explicit |-> FALSE]

\* A payload text that differs from data and decodes to the same bytes:
\* the unused low bits of the last character set, or a newline added.
MalleableTwin(data) ==
    LET n == Len(data)
    IN  IF n >= 4 /\ data[n] = 61 /\ data[n - 1] = 61
        THEN [data EXCEPT ![n - 2] = B64Char(B64Index(data[n - 2]) + 1)]
        ELSE IF n >= 4 /\ data[n] = 61
        THEN [data EXCEPT ![n - 1] = B64Char(B64Index(data[n - 1]) + 1)]
        ELSE Append(data, 10)

\* What a client may send back in place of an entry it was given: the
\* entry itself, or the entry with one of its four parts replaced.
Variants(entry) ==
    LET key == entry[1]
        type_id == entry[2][1]
        data == entry[2][2]
        signature == entry[2][3]
    IN  {entry}
        \cup {<<k, entry[2]>> : k \in Names}
        \cup {<<key, <<t, data, signature>>>> : t \in {Str(0), Str(2), Str(99)}}
        \cup {<<key, <<type_id, d, signature>>>> :
                d \in { MalleableTwin(data),
                        SubSeq(data, 1, Len(data) - 1),
                        urlsafe_b64encode(<<50>>) }}
        \cup {<<key, <<type_id, data, g>>>> : g \in {<<>>, <<0, 120>>}}

ReplaceAt(seq, i, e) == [seq EXCEPT ![i] = e]

\* The dictionaries a client holding "tokens" may present.
Presented(tokens) ==
    {tokens}
    \cup {ReplaceAt(tokens, i, e) : <<i, e>> \in
            UNION {{<<i, e>> : e \in Variants(tokens[i])} : i \in 1..Len(tokens)}}
    \cup {SubSeq(tokens, 1, i) : i \in 0..Len(tokens)}

\* The state_vars and managers of the runs that move the clock.
TimeInputs ==
    {<<<<(<<97>>), Int1>>>>, <<<<(<<97>>), None>>>>,
     <<<<(<<97>>), Int1>>, <<(<<66, 97>>), Obj("tuple", JArr(<<JInt(1)>>))>>>>}

TimeManagers == {Manager(<<"Point">>, 256, 40000, "str", {})}

\* What __init__ raises for the arguments in m: neither __init__ nor
\* _map_objects_to_ids holds a raise statement or a check of the list.
InitRaises(m) == FALSE

InitWith(managers) ==
    /\ mgr \in {m \in managers : ~InitRaises(m)}
    /\ now = 1
    /\ ser = NoSer
    /\ issued = [ser |-> NoSer, state_vars |-> <<>>, tokens |-> <<>>]
    /\ last = [op |-> "init", ser |-> NoSer, input |-> <<>>, exc |-> NoExc,
               result |-> <<>>, calls |-> <<>>]

Init == InitWith(Managers)

InitTime == InitWith(TimeManagers)

\* time.time() moves on.
Tick ==
    /\ now < MaxTime
    /\ now' = now + 1
    /\ UNCHANGED <<mgr, ser, issued, last>>

\* A request starts: mgr.create_serializer(salt, target_time).  A serializer
\* serves the one call of its request and is dropped after it.
CreateSerializer(salts, times) ==
    \E salt \in salts, target_time \in times :
        /\ ser' = create_serializer(mgr, salt, target_time, now)
        /\ last' = [op |-> "create", ser |-> ser', input |-> <<>>, exc |-> NoExc,
                    result |-> <<>>, calls |-> <<>>]
        /\ UNCHANGED <<mgr, now, issued>>

\* The request's serializer.serialize_state_vars(state_vars); what it
\* returns, if anything, is what the client holds from then on.
Serialize(inputs) ==
    \E state_vars \in inputs :
        LET r == serialize_state_vars(mgr, ser, state_vars)
        IN  /\ ser # NoSer
            /\ last' = [op |-> "serialize", ser |-> ser, input |-> state_vars,
                        exc |-> r.exc, result |-> r.result, calls |-> <<>>]
            /\ issued' = [ser |-> ser, state_vars |-> state_vars,
                          tokens |-> r.result]
            /\ ser' = NoSer
            /\ UNCHANGED <<mgr, now>>

\* The request's serializer.deserialize_client_state(state_vars) on what
\* the client sent: what it holds, altered or not.
Deserialize(altered) ==
    \E state_vars \in IF altered THEN Presented(issued.tokens) ELSE {issued.tokens} :
        LET r == deserialize_client_state(mgr, ser, state_vars)
        IN  /\ ser # NoSer
            /\ last' = [op |-> "deserialize", ser |-> ser, input |-> state_vars,
                        exc |-> r.exc, result |-> r.result, calls |-> r.calls]
            /\ ser' = NoSer
            /\ UNCHANGED <<mgr, now, issued>>

\* Requests of two sessions at one time, with every value and every
\* alteration by the client.
Next ==
    \/ CreateSerializer(Salts, {NoTime})
    \/ Serialize(StateVarsInputs)
    \/ Deserialize(TRUE)

Spec == Init /\ [][Next]_vars

\* Requests of one session over time, with and without target_time.
NextTime ==
    \/ Tick
    \/ CreateSerializer({<<65>>}, {NoTime} \cup 0..MaxTime)
    \/ Serialize(TimeInputs)
    \/ Deserialize(FALSE)

SpecTime == InitTime /\ [][NextTime]_vars

(* ------------------------------------------------------------------ *)
(* Properties                                                          *)
(* ------------------------------------------------------------------ *)
Serialized == last.op = "serialize"
Deserialized == last.op = "deserialize"
Failure == "StateRecoveryFailureError"
Mismatch == Exc(Failure, "Signature mismatch")

Bucket(t) == t \div mgr.otp_interval

\* The last serialize_state_vars call returned a token for every entry.
IssuedOk ==
    Len(issued.state_vars) > 0 /\ Len(issued.tokens) = Len(issued.state_vars)

\* The types the manager was built to accept, by name.
RegisteredClasses ==
    {"str", "int", "float", "bool", "list", "tuple", "UUID",
     "Decimal", "datetime", "date", "time"}
    \cup {mgr.serializable_objects[i] : i \in 1..Len(mgr.serializable_objects)}

NonNull(entry) == entry[2][1] # Str(0)

\* The client sent back exactly what it was given.
Unaltered == Deserialized /\ IssuedOk /\ last.input = issued.tokens

\* C1: round trip - tokens of values of registered types, sent back
\* unaltered to a serializer of the same salt created in the same interval
\* bucket, are accepted and give back the values, with their types.
C1_RoundTrip ==
    ( /\ Unaltered
      /\ last.ser.salt = issued.ser.salt
      /\ Bucket(last.ser.at) = Bucket(issued.ser.at)
      /\ \A i \in 1..Len(issued.state_vars) :
            issued.state_vars[i][2].cls \in RegisteredClasses )
    => /\ last.exc = NoExc
       /\ last.result = issued.state_vars

\* The entry sent differs from the entry given in exactly one of payload,
\* signature and name.
AlteredOnce(sent, given) ==
    /\ sent[2][1] = given[2][1]
    /\ \/ sent[1] = given[1] /\ sent[2][3] = given[2][3] /\ sent[2][2] # given[2][2]
       \/ sent[1] = given[1] /\ sent[2][2] = given[2][2] /\ sent[2][3] # given[2][3]
       \/ sent[1] # given[1] /\ sent[2] = given[2]

SameSecrets == last.ser.otp_code = issued.ser.otp_code /\ last.ser.salt = issued.ser.salt

\* C2: tamper detection - a non-null token sent back with another payload,
\* with another signature, or under another name, to a serializer of the
\* same pepper, code and salt, fails with a signature mismatch.
C2_TamperDetected ==
    ( /\ Deserialized
      /\ IssuedOk
      /\ Len(issued.tokens) = 1
      /\ Len(last.input) = 1
      /\ NonNull(issued.tokens[1])
      /\ SameSecrets
      /\ AlteredOnce(last.input[1], issued.tokens[1]) )
    => last.exc = Mismatch /\ last.result = <<>>

SomeNonNull == \E i \in 1..Len(issued.tokens) : NonNull(issued.tokens[i])

\* C3: cross-salt rejection - non-null tokens sent back unaltered, under
\* their names, to a serializer of the same manager and interval bucket
\* with another salt fail with the recovery failure.
C3_CrossSalt ==
    ( /\ Unaltered
      /\ SomeNonNull
      /\ Bucket(last.ser.at) = Bucket(issued.ser.at)
      /\ last.ser.salt # issued.ser.salt )
    => last.exc.type = Failure /\ last.result = <<>>

C3_Witness ==
    /\ Unaltered
    /\ SomeNonNull
    /\ Bucket(last.ser.at) = Bucket(issued.ser.at)
    /\ last.ser.salt # issued.ser.salt
    /\ last.exc = Mismatch

\* C4: time-window rejection - non-null tokens sent back unaltered to a
\* serializer of the same salt created at a time in another interval
\* bucket fail with a signature mismatch.
C4_TimeWindow ==
    ( /\ Unaltered
      /\ SomeNonNull
      /\ last.ser.salt = issued.ser.salt
      /\ Bucket(last.ser.at) # Bucket(issued.ser.at) )
    => last.exc = Mismatch

\* The classes of a value's hierarchy that the manager was built to accept,
\* nearest first.
RECURSIVE Accepted(_)
Accepted(mro) ==
    IF Len(mro) = 0 THEN <<>>
    ELSE IF Head(mro) \in RegisteredClasses THEN <<Head(mro)>> \o Accepted(Tail(mro))
    ELSE Accepted(Tail(mro))

Unaccepted(v) == v # None /\ Accepted(Mro(v.cls)) = <<>>

ViaSuperclass(v) ==
    v # None /\ v.cls \notin RegisteredClasses /\ Accepted(Mro(v.cls)) # <<>>

Encoded(v) == dumps(v, mgr.default_serializer)

Fits(v) == Encoded(v).ok /\ Len(Encoded(v).bytes) <= mgr.max_object_length

NotWhitelisted == Exc("ValueError", "not white-listed")

\* C5: whitelist enforcement - a call with a non-null value none of whose
\* classes is registered fails and gives the client no token, a call with
\* just that value fails as not white-listed; a value whose class is not
\* registered and has a registered superclass passes the whitelist, and,
\* its encoding being within the size limit, gets a token whose type id is
\* the identifier of that superclass.
C5_Whitelist ==
    Serialized =>
      /\ (\E i \in 1..Len(last.input) : Unaccepted(last.input[i][2]))
            => last.exc # NoExc /\ last.result = <<>> /\ issued.tokens = <<>>
      /\ Len(last.input) = 1 =>
            LET v == last.input[1][2]
            IN  /\ Unaccepted(v) => last.exc = NotWhitelisted
                /\ ViaSuperclass(v) => last.exc # NotWhitelisted
                /\ ViaSuperclass(v) /\ Fits(v) =>
                      /\ last.exc = NoExc
                      /\ last.result[1][2][1] =
                            Registry(mgr).object_to_type_id[Head(Accepted(Mro(v.cls)))]

C5_Witness ==
    /\ Serialized
    /\ Len(last.input) = 1
    /\ ViaSuperclass(last.input[1][2])
    /\ last.exc = NoExc
    /\ Len(last.result) = 1

\* C6: batch size guard - serialize_state_vars with more than max_objects
\* entries fails and returns no tokens.
C6_TooManyValues ==
    (Serialized /\ Len(last.input) > mgr.max_objects)
    => last.exc # NoExc /\ last.result = <<>>

\* The value passes the whitelist and orjson can write it.
Encodes(v) == v # None /\ Accepted(Mro(v.cls)) # <<>> /\ Encoded(v).ok

\* C7: payload size guard - such a value gets a token exactly if its encoded
\* length is at most max_object_length, a longer one fails as too long, and
\* no token the client holds decodes to more than max_object_length bytes.
C7_PayloadGuard ==
    /\ (Serialized /\ Len(last.input) = 1 /\ Encodes(last.input[1][2])) =>
          LET n == Len(Encoded(last.input[1][2]).bytes)
          IN  /\ (last.exc = NoExc /\ Len(last.result) = 1) <=> n <= mgr.max_object_length
              /\ n > mgr.max_object_length => last.exc = Exc("ValueError", "too long")
    /\ \A i \in 1..Len(issued.tokens) :
          Len(urlsafe_b64decode(issued.tokens[i][2][2]).bytes) <= mgr.max_object_length

C7_Witness ==
    /\ Serialized
    /\ Len(last.input) = 1
    /\ Encodes(last.input[1][2])
    /\ Len(Encoded(last.input[1][2]).bytes) = mgr.max_object_length
    /\ last.exc = NoExc
    /\ Len(last.result) = 1

\* The entry alone is refused by the serializer of the last call.
Refused(entry) ==
    _deserialize(mgr, last.ser, entry[1], entry[2][1], entry[2][2], entry[2][3]).exc # NoExc

\* C8: all-or-nothing deserialization - deserialize_client_state returns a
\* value for every name sent, or fails and returns nothing; one refused
\* token makes it fail, whatever was recovered before it.
C8_AllOrNothing ==
    Deserialized =>
      LET bad == \E i \in 1..Len(last.input) : Refused(last.input[i])
      IN  /\ bad => last.exc # NoExc /\ last.result = <<>>
          /\ ~bad => /\ last.exc = NoExc
                     /\ Len(last.result) = Len(last.input)
                     /\ \A i \in 1..Len(last.input) : last.result[i][1] = last.input[i][1]
          /\ last.exc # NoExc => last.result = <<>>

C8_Witness ==
    /\ Deserialized
    /\ Len(last.input) = 2
    /\ ~Refused(last.input[1])
    /\ NonNull(last.input[1])
    /\ Refused(last.input[2])
    /\ last.result = <<>>

\* C9: uniform failure signal - every failure of deserialize_client_state
\* is the recovery failure error.
C9_UniformFailure ==
    (Deserialized /\ last.exc # NoExc) => last.exc.type = Failure

\* C10: null handling - a null value gets the token ("0", "", ""); a token
\* with type id "0" gives null under every name, on every serializer and
\* whatever its payload and signature, and no signature is computed for it.
C10_Null ==
    /\ (Serialized /\ last.exc = NoExc) =>
          \A i \in 1..Len(last.input) :
             last.input[i][2] = None =>
                last.result[i] = <<last.input[i][1], <<(<<48>>), <<>>, <<>>>>>>
    /\ (Deserialized /\ last.exc = NoExc) =>
          \A i \in 1..Len(last.input) :
             last.input[i][2][1] = <<48>> => last.result[i] = <<last.input[i][1], None>>
    /\ (Deserialized /\ Len(last.input) = 1 /\ last.input[1][2][1] = <<48>>) =>
          /\ last.exc = NoExc
          /\ Len(last.result) = 1
          /\ last.calls = <<>>

C10_Witness ==
    /\ Deserialized
    /\ Len(last.input) = 1
    /\ last.input[1][2][1] = <<48>>
    /\ last.input[1][2][2] # <<>>
    /\ last.input[1][2][3] # <<>>
    /\ last.ser.salt # issued.ser.salt
    /\ last.result = <<<<last.input[1][1], None>>>>

Reserved ==
    {"str", "int", "float", "bool", "list", "tuple", "UUID",
     "Decimal", "datetime", "date", "time"}

\* C11: construction fails when the whitelist names a reserved type, so no
\* manager holds a whitelist that collides with the built-ins or with the
\* types the manager appends itself.
C11_ConfigurationError ==
    \A i \in 1..Len(mgr.serializable_objects) :
        mgr.serializable_objects[i] \notin Reserved

\* The whitelist holds the one server-declared type Point, and a Point was
\* serialized.
PointSerialized ==
    /\ Serialized
    /\ last.exc = NoExc
    /\ mgr.serializable_objects = <<"Point">>
    /\ Len(last.input) = 1
    /\ last.input[1][2].cls = "Point"

\* C12 as stated: with the whitelist [Point] a serialized Point carries the
\* type id "9".
C12_PointIsNine == PointSerialized => last.result[1][2][1] = <<57>>

\* The types in the order of registration: None and the seven built-ins,
\* the server-declared types in list order, the four appended types.
Ordered ==
    <<"None", "str", "int", "float", "bool", "list", "tuple", "UUID">>
    \o mgr.serializable_objects
    \o <<"Decimal", "datetime", "date", "time">>

\* C12 amended: with the whitelist [Point] a serialized Point carries the
\* type id "8"; the identifiers are the decimal ordinals, from "0" for the
\* null entry, of the positions in the order of registration.
C12_PointIsEight ==
    /\ PointSerialized => last.result[1][2][1] = <<56>>
    /\ DOMAIN Registry(mgr).type_id_to_object = {Str(i - 1) : i \in 1..Len(Ordered)}
    /\ \A i \in 1..Len(Ordered) :
          Registry(mgr).type_id_to_object[Str(i - 1)] = Ordered[i]

C12_Witness == PointSerialized /\ last.result[1][2][1] = <<56>>

\* The entry sent is an entry the client was given, for the serializer of
\* the last call: same name, type id and payload bytes, issued under the
\* same code and salt.
IssuedFor(sent) ==
    /\ last.ser.salt = issued.ser.salt
    /\ last.ser.otp_code = issued.ser.otp_code
    /\ \E k \in 1..Len(issued.tokens) :
          /\ issued.tokens[k][1] = sent[1]
          /\ issued.tokens[k][2][1] = sent[2][1]
          /\ urlsafe_b64decode(issued.tokens[k][2][2]).bytes
                = urlsafe_b64decode(sent[2][2]).bytes

\* C13: token binding - every non-null token a serializer accepts under a
\* name was issued under that name, with that type id and payload, by a
\* serializer of the same pepper, code and salt; changing salt and name
\* together, or type id and payload together, is rejected like any change.
C13_Binding ==
    (Deserialized /\ last.exc = NoExc) =>
        \A i \in 1..Len(last.input) :
            NonNull(last.input[i]) => IssuedFor(last.input[i])

ParsingCalls == {"loads", "constructor", "custom_deserializer"}

\* The entry's type id is not in the registry.
UnknownId(entry) ==
    entry[2][1] \notin {Str(i - 1) : i \in 1..Len(Ordered)}

\* The entry's signature is not the digest of its type id and decoded
\* payload with the pepper and the code and salt of the last call's
\* serializer and the name it is sent under.
BadSignature(entry) ==
    entry[2][3] # <<0>> \o entry[2][1] \o urlsafe_b64decode(entry[2][2]).bytes
                    \o mgr.pepper \o last.ser.otp_code \o last.ser.salt \o entry[1]

\* C14: verify before construct - for a non-null token the type id is
\* resolved and the signature recomputed before the payload is parsed or
\* handed to a constructor or custom decoder, and nothing parses or
\* constructs from a token of unknown type id or wrong signature.
C14_VerifyFirst ==
    (Deserialized /\ Len(last.input) = 1 /\ NonNull(last.input[1])) =>
        /\ (UnknownId(last.input[1]) \/ BadSignature(last.input[1]))
              => \A k \in 1..Len(last.calls) : last.calls[k] \notin ParsingCalls
        /\ \A k \in 1..Len(last.calls) :
              last.calls[k] \in ParsingCalls =>
                 /\ \E a \in 1..(k - 1) : last.calls[a] = "lookup"
                 /\ \E b \in 1..(k - 1) : last.calls[b] = "sign"

C14_Witness ==
    /\ Deserialized
    /\ Len(last.input) = 1
    /\ NonNull(last.input[1])
    /\ ~UnknownId(last.input[1])
    /\ BadSignature(last.input[1])
    /\ urlsafe_b64decode(last.input[1][2][2]).ok
    /\ loads(urlsafe_b64decode(last.input[1][2][2]).bytes).ok
    /\ last.exc = Mismatch
    /\ last.calls = <<"lookup", "b64decode", "sign">>

\* C15: the serializer factory is pure in its inputs - given an explicit
\* target time, the code of the serializer is the code of that instant and
\* depends on nothing else; repeated calls give equivalent serializers.
C15_PureFactory ==
    (last.op = "create" /\ last.ser.explicit) =>
        last.ser.otp_code = totp_at(mgr, last.ser.at)

\* C16: the type registry is a bijection between type ids and accepted
\* types - looking a type up by id and the id up by type are inverse.
C16_Bijection ==
    /\ \A id \in DOMAIN Registry(mgr).type_id_to_object :
          /\ Registry(mgr).type_id_to_object[id] \in DOMAIN Registry(mgr).object_to_type_id
          /\ Registry(mgr).object_to_type_id[Registry(mgr).type_id_to_object[id]] = id
    /\ \A t \in DOMAIN Registry(mgr).object_to_type_id :
          /\ Registry(mgr).object_to_type_id[t] \in DOMAIN Registry(mgr).type_id_to_object
          /\ Registry(mgr).type_id_to_object[Registry(mgr).object_to_type_id[t]] = t

\* The value has more than one registered class in its hierarchy.
SeveralRegistered(v) == v # None /\ Len(Accepted(Mro(v.cls))) > 1

\* C17: nearest registered ancestor wins - every token of a successful
\* serialize call carries an identifier that names the first registered
\* class met walking the value's hierarchy from its exact class; a bool
\* gets "4", not the int identifier "2".
C17_NearestAncestor ==
    (Serialized /\ last.exc = NoExc) =>
        \A i \in 1..Len(last.input) :
            LET v  == last.input[i][2]
                id == last.result[i][2][1]
            IN  v # None =>
                  /\ id \in DOMAIN Registry(mgr).type_id_to_object
                  /\ Registry(mgr).type_id_to_object[id] = Head(Accepted(Mro(v.cls)))
                  /\ v.cls = "bool" => id = <<52>>

C17_Witness ==
    /\ Serialized
    /\ last.exc = NoExc
    /\ \E i \in 1..Len(last.input) :
          /\ SeveralRegistered(last.input[i][2])
          /\ last.input[i][2].cls = "bool"
          /\ last.result[i][2][1] = <<52>>

====
